---- MODULE Spec2Model ----
(***************************************************************************)
(* A model of scripts/attack_range_core.py: the AzureAttackRangeCore       *)
(* controller.  The state is what the controller reads and writes (the two *)
(* terraform files, playbooks/inventory.yml, the configuration mapping,    *)
(* the virtual machines of the resource group) and a trace of the external *)
(* interactions of the last operation.  Every method is an operator that   *)
(* computes the method's effect from the outcomes of its external calls;   *)
(* every action runs one method to completion (the controller is           *)
(* synchronous and single-threaded).  Text is modelled as text: files are  *)
(* strings, searched and split character by character.  File operations    *)
(* on existing files are taken to succeed.                                 *)
(***************************************************************************)
EXTENDS Integers, Sequences, FiniteSets, TLC

VARIABLES
    config,         \* self.config: the configuration mapping (read-only)
    vms,            \* what compute_client.virtual_machines.list(rg_name) yields
    tfvars,         \* the file terraform/terraform.tfvars
    variables_tf,   \* the file terraform/variables.tf
    inventory_yml,  \* the file playbooks/inventory.yml
    current_ip,     \* update_ip_config's local current_ip, if the last step ran it
    lines,          \* update_ip_config's local lines (f.readlines()), likewise
    content,        \* update_ip_config's local content (f.read()), likewise
    op,             \* the method the last step ran
    result,         \* how it ended: "success" (True), "failure" (False), "none", "raised"
    trace           \* the external interactions of the last step, in order

vars == <<config, vms, tfvars, variables_tf, inventory_yml, current_ip, lines,
          content, op, result, trace>>

----------------------------------------------------------------------------
(* Bounds of the model *)

\* the longest initial terraform.tfvars, in lines
MaxLines == 2

\* the longest list of virtual machines drawn from the catalogue
MaxVMs == 2

----------------------------------------------------------------------------
(* Text *)

\* Python's None, and a local that was never bound
NoneVal == "<None>"
Unset == "<unset>"

\* Python's `k in s` on strings
Contains(s, k) ==
    \E i \in 1..(Len(s) - Len(k) + 1) : SubSeq(s, i, i + Len(k) - 1) = k

\* how often k occurs in s
Occurrences(s, k) ==
    Cardinality({ i \in 1..(Len(s) - Len(k) + 1) : SubSeq(s, i, i + Len(k) - 1) = k })

\* f.readlines(): the text cut after every "\n", the terminators kept; a last
\* line without a terminator is a line too
RECURSIVE ReadLinesFrom(_, _, _)
ReadLinesFrom(s, start, i) ==
    IF i > Len(s)
    THEN IF start > Len(s) THEN <<>> ELSE <<SubSeq(s, start, Len(s))>>
    ELSE IF SubSeq(s, i, i) = "\n"
         THEN <<SubSeq(s, start, i)>> \o ReadLinesFrom(s, i + 1, i + 1)
         ELSE ReadLinesFrom(s, start, i + 1)

ReadLines(s) == ReadLinesFrom(s, 1, 1)

\* the text a sequence of lines makes
RECURSIVE Join(_)
Join(ls) == IF ls = <<>> THEN "" ELSE Head(ls) \o Join(Tail(ls))

UpperCase == <<"A", "B", "C", "D", "E", "F", "G", "H", "I", "J", "K", "L", "M",
               "N", "O", "P", "Q", "R", "S", "T", "U", "V", "W", "X", "Y", "Z">>
LowerCase == <<"a", "b", "c", "d", "e", "f", "g", "h", "i", "j", "k", "l", "m",
               "n", "o", "p", "q", "r", "s", "t", "u", "v", "w", "x", "y", "z">>

LowerChar(c) ==
    IF \E i \in 1..Len(UpperCase) : UpperCase[i] = c
    THEN LowerCase[CHOOSE i \in 1..Len(UpperCase) : UpperCase[i] = c]
    ELSE c

\* str.lower()
RECURSIVE Lower(_)
Lower(s) == IF s = "" THEN "" ELSE LowerChar(SubSeq(s, 1, 1)) \o Lower(SubSeq(s, 2, Len(s)))

----------------------------------------------------------------------------
(* Files *)

NoFile == [exists |-> FALSE, text |-> ""]
File(t) == [exists |-> TRUE, text |-> t]

\* one external interaction: what was called and how it came out
Step(c, o) == [cmd |-> c, out |-> o]

----------------------------------------------------------------------------
(* update_ip_config *)

\* what the lookup service can answer
LookupIps == {"1.1.1.1", "2.2.2.2"}
LookupOutcomes == LookupIps \cup {"raise"}

\* the line written for the variable
AllowedIpLine(ip) == "allowed_ip = \"" \o ip \o "\"\n"

\* the loop over lines: a line that mentions the variable is replaced
RECURSIVE WriteLines(_, _)
WriteLines(ls, ip) ==
    IF ls = <<>> THEN ""
    ELSE (IF Contains(Head(ls), "allowed_ip") THEN AllowedIpLine(ip) ELSE Head(ls))
         \o WriteLines(Tail(ls), ip)

ip_config_found(ls) == \E i \in 1..Len(ls) : Contains(ls[i], "allowed_ip")

\* a rewrite that never adds the missing variable
RewriteTfvarsNoAppend(ls, ip) == WriteLines(ls, ip)

\* the new text of terraform.tfvars
RewriteTfvars(ls, ip) ==
    WriteLines(ls, ip) \o (IF ~ip_config_found(ls) THEN "\n" \o AllowedIpLine(ip) ELSE "")

\* the block appended to variables.tf
DeclBlock ==
    "\n\nvariable \"allowed_ip\" {\n"
    \o "  description = \"IP address allowed to connect to the Attack Range\"\n"
    \o "  type        = string\n"
    \o "  default     = \"0.0.0.0/0\"\n"
    \o "}\n"

\* an append that does not look for the variable first
EnsureDeclarationAlways(text) == text \o DeclBlock

\* the new text of variables.tf
EnsureDeclaration(text) ==
    IF ~Contains(text, "allowed_ip") THEN text \o DeclBlock ELSE text

\* The method: the files and locals it leaves, and its interactions.
update_ip_config(tv, vt, lookup) ==
    IF lookup = "raise"
    THEN [tfvars |-> tv, variables_tf |-> vt, current_ip |-> Unset,
          lines |-> <<>>, content |-> "",
          trace |-> <<Step("requests.get", "raise")>>]
    ELSE LET ip == lookup \o "/32"
             ls == IF tv.exists THEN ReadLines(tv.text) ELSE <<>>
             ct == IF vt.exists THEN vt.text ELSE ""
             newTv == IF tv.exists THEN File(RewriteTfvars(ls, ip)) ELSE tv
             newVt == IF vt.exists THEN File(EnsureDeclaration(ct)) ELSE vt
         IN [tfvars |-> newTv, variables_tf |-> newVt, current_ip |-> ip,
             lines |-> ls, content |-> ct,
             trace |-> <<Step("requests.get", "ok")>>
                       \o (IF tv.exists THEN <<Step("write terraform.tfvars", "ok")>> ELSE <<>>)
                       \o (IF vt.exists /\ newVt # vt
                           THEN <<Step("append variables.tf", "ok")>> ELSE <<>>)]

----------------------------------------------------------------------------
(* Subprocesses *)

\* how an external process can end
ProcOutcomes == {"ok", "nonzero", "raise"}

\* subprocess.run without check: a non-zero exit is not an error
CheckedRunNoCheck(out) ==
    CASE out = "ok" -> "ok"
      [] out = "nonzero" -> "ok"
      [] OTHER -> "Exception"

\* subprocess.run(..., check=True): what the caller sees
CheckedRun(out) ==
    CASE out = "ok" -> "ok"
      [] out = "nonzero" -> "CalledProcessError"
      [] OTHER -> "Exception"

----------------------------------------------------------------------------
(* create_ansible_inventory *)

\* config.get(key, default)
ConfigGet(cfg, key, default) == IF cfg[key] = NoneVal THEN default ELSE cfg[key]

\* a check for the key only, which lets an empty password through
PasswordMissingNoneOnly(cfg) == cfg["admin_password"] = NoneVal

\* `not admin_password`: None and "" are both missing
PasswordMissing(cfg) == cfg["admin_password"] = NoneVal \/ cfg["admin_password"] = ""

WindowsKeywords == <<"dc", "workstation", "win11", "server2025">>

\* a classification that forgets to lower-case the name
ClassifyVMCaseSensitive(vm_name) ==
    IF \E i \in 1..Len(WindowsKeywords) : Contains(vm_name, WindowsKeywords[i])
    THEN "windows"
    ELSE IF Contains(vm_name, "kali") THEN "linux" ELSE "none"

\* the group a VM name falls in
ClassifyVM(vm_name) ==
    LET vm_name_lower == Lower(vm_name)
    IN IF \E i \in 1..Len(WindowsKeywords) : Contains(vm_name_lower, WindowsKeywords[i])
       THEN "windows"
       ELSE IF Contains(vm_name_lower, "kali") THEN "linux" ELSE "none"

\* hosts[key] = value
Put(hosts, key, value) ==
    [k \in DOMAIN hosts \cup {key} |-> IF k = key THEN value ELSE hosts[k]]

NoHosts == [k \in {} |-> [ansible_host |-> ""]]

WindowsHost(public_ip) ==
    [ansible_host |-> public_ip,
     ansible_winrm_operation_timeout_sec |-> 60,
     ansible_winrm_read_timeout_sec |-> 70,
     roles |-> <<"defender_for_endpoint">>]

LinuxHost(public_ip) == [ansible_host |-> public_ip]

\* The body of the loop for one VM.  acc holds the two hosts mappings, the
\* local vm_name (Unset before the first assignment), the interactions so far
\* and whether an exception has left the loop.  A VM's status says where its
\* processing stops: "name_raises" (reading vm.name raises), "no_nic",
\* "nic_raises" (network_interfaces.get raises), "no_pip", "pip_raises"
\* (public_ip_addresses.get raises), "ok".
ProcessVM(acc, vm) ==
    IF vm.status = "name_raises"
    THEN \* the handler prints vm_name: unbound on the first VM, a NameError
         \* that leaves the loop; afterwards the previous VM's name
         IF acc.vm_name = Unset THEN [acc EXCEPT !.raised = TRUE] ELSE acc
    ELSE LET a1 == [acc EXCEPT !.vm_name = vm.name]
         IN IF vm.status = "no_nic" THEN a1
            ELSE IF vm.status = "nic_raises"
            THEN [a1 EXCEPT !.trace = @ \o <<Step("network_interfaces.get", "raise")>>]
            ELSE LET a2 == [a1 EXCEPT !.trace = @ \o <<Step("network_interfaces.get", "ok")>>]
                 IN IF vm.status = "no_pip" THEN a2
                    ELSE IF vm.status = "pip_raises"
                    THEN [a2 EXCEPT !.trace = @ \o <<Step("public_ip_addresses.get", "raise")>>]
                    ELSE LET a3 == [a2 EXCEPT !.trace =
                                        @ \o <<Step("public_ip_addresses.get", "ok")>>]
                             group == ClassifyVM(vm.name)
                         IN CASE group = "windows" ->
                                     [a3 EXCEPT !.windows = Put(@, vm.name, WindowsHost(vm.ip))]
                              [] group = "linux" ->
                                     [a3 EXCEPT !.linux = Put(@, vm.name, LinuxHost(vm.ip))]
                              [] OTHER -> a3

\* for vm in vms
RECURSIVE ProcessVMs(_, _)
ProcessVMs(acc, list) ==
    IF list = <<>> \/ acc.raised THEN acc
    ELSE ProcessVMs(ProcessVM(acc, Head(list)), Tail(list))

Inventory(user, password, windows, linux) ==
    [exists |-> TRUE, ansible_user |-> user, ansible_password |-> password,
     windows |-> windows, linux |-> linux]

NoInventory == [exists |-> FALSE, ansible_user |-> "", ansible_password |-> "",
                windows |-> NoHosts, linux |-> NoHosts]

\* The method: what it returns, the inventory file it leaves, its interactions.
\* listing is how virtual_machines.list ends ("ok" or "raise").
create_ansible_inventory(cfg, list, inv, listing) ==
    LET admin_username == ConfigGet(cfg, "admin_username", "azureuser")
        admin_password == cfg["admin_password"]
        called == <<Step("create_ansible_inventory", "call")>>
    IN IF PasswordMissing(cfg)
       THEN [ret |-> "failure", inventory_yml |-> inv, trace |-> called]
       ELSE IF listing = "raise"
       THEN [ret |-> "failure", inventory_yml |-> inv,
             trace |-> called \o <<Step("virtual_machines.list", "raise")>>]
       ELSE LET acc == ProcessVMs([windows |-> NoHosts, linux |-> NoHosts,
                                   vm_name |-> Unset, raised |-> FALSE,
                                   trace |-> called \o <<Step("virtual_machines.list", "ok")>>],
                                  list)
            IN IF acc.raised
               THEN [ret |-> "failure", inventory_yml |-> inv, trace |-> acc.trace]
               ELSE [ret |-> "success",
                     inventory_yml |-> Inventory(admin_username, admin_password,
                                                 acc.windows, acc.linux),
                     trace |-> acc.trace \o <<Step("write playbooks/inventory.yml", "ok")>>]

----------------------------------------------------------------------------
(* run_defender_onboarding *)

\* The method: whether an exception leaves it, and its interactions.
\* script_exists is os.path.exists(abs_script_path), on_path is whether
\* shutil.which finds ansible-playbook, run is how the playbook process ends.
run_defender_onboarding(cfg, script_exists, on_path, run) ==
    LET called == <<Step("run_defender_onboarding", "call")>>
    IN IF cfg["defender_onboarding_script"] = NoneVal
          \/ cfg["defender_onboarding_script"] = ""
       THEN [raised |-> FALSE, trace |-> called]
       ELSE IF ~script_exists
       THEN [raised |-> FALSE, trace |-> called \o <<Step("os.path.exists", "no")>>]
       ELSE IF ~on_path
       THEN [raised |-> FALSE,
             trace |-> called \o <<Step("os.path.exists", "yes"), Step("shutil.which", "no")>>]
       ELSE \* only CalledProcessError is handled
            [raised |-> CheckedRun(run) = "Exception",
             trace |-> called \o <<Step("os.path.exists", "yes"), Step("shutil.which", "yes"),
                                   Step("ansible-playbook", run)>>]

----------------------------------------------------------------------------
(* build, update, destroy *)

\* What a method leaves behind: the three files, update_ip_config's locals,
\* the result and the interactions.
Outcome(tv, vt, inv, ip, ls, ct, res, tr) ==
    [tfvars |-> tv, variables_tf |-> vt, inventory_yml |-> inv, current_ip |-> ip,
     lines |-> ls, content |-> ct, result |-> res, trace |-> tr]

\* os.system's status is compared with 0; the call is inside a try
OsSystemFailed(out) == out # "ok"

\* build.  first and second are how terraform init and terraform apply end.
build(cfg, list, tv, vt, inv, lookup, first, second, listing, script_exists, on_path, run) ==
    LET sync == update_ip_config(tv, vt, lookup)
        initStep == <<Step("terraform init", first)>>
        applyStep == <<Step("terraform apply -auto-approve", second)>>
        failed(tr) == Outcome(sync.tfvars, sync.variables_tf, inv, sync.current_ip,
                              sync.lines, sync.content, "failure", sync.trace \o tr)
    IN IF CheckedRun(first) # "ok" THEN failed(initStep)
       ELSE IF CheckedRun(second) # "ok" THEN failed(initStep \o applyStep)
       ELSE LET made == create_ansible_inventory(cfg, list, inv, listing)
                soFar == sync.trace \o initStep \o applyStep \o made.trace
            IN IF made.ret # "success"
               THEN Outcome(sync.tfvars, sync.variables_tf, made.inventory_yml,
                            sync.current_ip, sync.lines, sync.content, "success", soFar)
               ELSE LET onb == run_defender_onboarding(cfg, script_exists, on_path, run)
                    IN Outcome(sync.tfvars, sync.variables_tf, made.inventory_yml,
                               sync.current_ip, sync.lines, sync.content,
                               IF onb.raised THEN "raised" ELSE "success",
                               soFar \o onb.trace)

\* a destroy that synchronises the allow-list first, as update does
destroyWithSync(tv, vt, inv, run) ==
    LET sync == update_ip_config(tv, vt, "1.1.1.1")
    IN Outcome(sync.tfvars, sync.variables_tf, inv, sync.current_ip, sync.lines,
               sync.content, IF OsSystemFailed(run) THEN "failure" ELSE "success",
               sync.trace \o <<Step("terraform destroy -auto-approve", run)>>)

\* destroy.  It runs no update_ip_config.
destroy(tv, vt, inv, run) ==
    Outcome(tv, vt, inv, Unset, <<>>, "",
            IF OsSystemFailed(run) THEN "failure" ELSE "success",
            <<Step("terraform destroy -auto-approve", run)>>)

\* update
update(tv, vt, inv, lookup, run) ==
    LET sync == update_ip_config(tv, vt, lookup)
    IN Outcome(sync.tfvars, sync.variables_tf, inv, sync.current_ip, sync.lines,
               sync.content, IF OsSystemFailed(run) THEN "failure" ELSE "success",
               sync.trace \o <<Step("terraform apply -auto-approve", run)>>)

----------------------------------------------------------------------------
(* Actions: one call of a method, with the outcomes of its external calls *)

Leave(name, o) ==
    /\ op' = name
    /\ tfvars' = o.tfvars
    /\ variables_tf' = o.variables_tf
    /\ inventory_yml' = o.inventory_yml
    /\ current_ip' = o.current_ip
    /\ lines' = o.lines
    /\ content' = o.content
    /\ result' = o.result
    /\ trace' = o.trace
    /\ UNCHANGED <<config, vms>>

\* An outcome that is never asked for is fixed, so that every run is one step.
Only(asked, outcomes, fixed) == IF asked THEN outcomes ELSE {fixed}

Build ==
    \E lookup \in LookupOutcomes, first \in ProcOutcomes :
    \E second \in Only(first = "ok", ProcOutcomes, "ok") :
    \E listing \in Only(first = "ok" /\ second = "ok" /\ ~PasswordMissing(config),
                        {"ok", "raise"}, "ok") :
    \E script_exists \in Only(first = "ok" /\ second = "ok" /\ listing = "ok",
                              BOOLEAN, TRUE) :
    \E on_path \in Only(first = "ok" /\ second = "ok" /\ listing = "ok" /\ script_exists,
                        BOOLEAN, TRUE) :
    \E run \in Only(first = "ok" /\ second = "ok" /\ listing = "ok" /\ script_exists
                    /\ on_path, ProcOutcomes, "ok") :
        Leave("build", build(config, vms, tfvars, variables_tf, inventory_yml, lookup,
                             first, second, listing, script_exists, on_path, run))

Update ==
    \E lookup \in LookupOutcomes, run \in ProcOutcomes :
        Leave("update", update(tfvars, variables_tf, inventory_yml, lookup, run))

Destroy ==
    \E run \in ProcOutcomes :
        Leave("destroy", destroy(tfvars, variables_tf, inventory_yml, run))

UpdateIpConfig ==
    \E lookup \in LookupOutcomes :
        LET sync == update_ip_config(tfvars, variables_tf, lookup)
        IN Leave("update_ip_config",
                 Outcome(sync.tfvars, sync.variables_tf, inventory_yml, sync.current_ip,
                         sync.lines, sync.content, "none", sync.trace))

CreateAnsibleInventory ==
    \E listing \in Only(~PasswordMissing(config), {"ok", "raise"}, "ok") :
        LET made == create_ansible_inventory(config, vms, inventory_yml, listing)
        IN Leave("create_ansible_inventory",
                 Outcome(tfvars, variables_tf, made.inventory_yml, Unset, <<>>, "",
                         made.ret, made.trace))

RunDefenderOnboarding ==
    \E script_exists \in BOOLEAN :
    \E on_path \in Only(script_exists, BOOLEAN, TRUE) :
    \E run \in Only(script_exists /\ on_path, ProcOutcomes, "ok") :
        LET onb == run_defender_onboarding(config, script_exists, on_path, run)
        IN Leave("run_defender_onboarding",
                 Outcome(tfvars, variables_tf, inventory_yml, Unset, <<>>, "",
                         IF onb.raised THEN "raised" ELSE "none", onb.trace))

Next ==
    \/ Build
    \/ Update
    \/ Destroy
    \/ UpdateIpConfig
    \/ CreateAnsibleInventory
    \/ RunDefenderOnboarding

----------------------------------------------------------------------------
(* Initial states: a controller just constructed, over the files and the      *)
(* resource group it finds                                                    *)

Config(password, script) ==
    [subscription_id |-> "sub-0001", resource_group |-> NoneVal,
     admin_username |-> NoneVal, admin_password |-> password,
     defender_onboarding_script |-> script]

Passwords == {NoneVal, "", "S3cret!"}
Scripts == {NoneVal, "onboard.cmd"}

\* lines a terraform.tfvars can hold: the assignment, a comment that mentions
\* the variable, another key whose name contains it, an unrelated key
TfvarsLineKinds ==
    <<"allowed_ip = \"9.9.9.9/32\"",
      "# allowed_ip is the caller's address",
      "old_allowed_ip = \"8.8.8.8/32\"",
      "location = \"eastus\"">>

\* the texts of n lines; the last line with or without its terminator
TfvarsTextsOfLen(n) ==
    IF n = 0 THEN {""}
    ELSE { Join([i \in 1..n |-> TfvarsLineKinds[k[i]] \o (IF i < n \/ nl THEN "\n" ELSE "")]) :
             k \in [1..n -> 1..Len(TfvarsLineKinds)], nl \in BOOLEAN }

TfvarsFiles ==
    {NoFile} \cup { File(t) : t \in UNION { TfvarsTextsOfLen(n) : n \in 0..MaxLines } }

OtherDecl == "variable \"location\" {\n  type = string\n}\n"

VariablesTfFiles ==
    {NoFile, File(""), File(OtherDecl), File(OtherDecl \o DeclBlock),
     File("# allowed_ip is declared in network.tf\n" \o OtherDecl)}

VM(name, status, ip) == [name |-> name, status |-> status, ip |-> ip]

\* the virtual machines a resource group is drawn from, one for every way
\* the processing of a machine can end
VMCatalogue ==
    <<VM("DC01", "ok", "20.0.0.1"),
      VM("kali-attacker", "ok", "20.0.0.3"),
      VM("Kali-DC", "ok", "20.0.0.5"),
      VM("WIN11-lab", "no_nic", ""),
      VM("Server2025", "no_pip", ""),
      VM("dc-broken", "name_raises", ""),
      VM("kali-2", "nic_raises", ""),
      VM("workstation-9", "pip_raises", "")>>

ExampleVMs ==
    <<VM("DC01", "ok", "20.0.0.1"), VM("workstation-1", "ok", "20.0.0.2"),
      VM("kali-attacker", "ok", "20.0.0.3"), VM("random-box", "ok", "20.0.0.4")>>

\* lists of at most MaxVMs distinct machines, and the example of four
VMLists ==
    {ExampleVMs} \cup
    UNION { { [i \in 1..n |-> VMCatalogue[k[i]]] :
                k \in { f \in [1..n -> 1..Len(VMCatalogue)] :
                          \A i, j \in 1..n : i # j => f[i] # f[j] } } : n \in 0..MaxVMs }

\* an inventory left by an earlier deployment
StaleInventory ==
    Inventory("azureuser", "0ldPass", Put(NoHosts, "old-dc", WindowsHost("20.0.0.9")), NoHosts)

InitLocals ==
    /\ current_ip = Unset
    /\ lines = <<>>
    /\ content = ""
    /\ op = "none"
    /\ result = "none"
    /\ trace = <<>>

\* every configuration, over two resource groups and two values files
Init ==
    /\ config \in { Config(p, s) : p \in Passwords, s \in Scripts }
    /\ vms \in {<<>>, <<VMCatalogue[1], VMCatalogue[7]>>}
    /\ tfvars \in {NoFile, File("location = \"eastus\"\nallowed_ip = \"9.9.9.9/32\"\n")}
    /\ variables_tf = File(OtherDecl)
    /\ inventory_yml = NoInventory
    /\ InitLocals

Spec == Init /\ [][Next]_vars

\* every terraform.tfvars of at most MaxLines lines
InitTfvars ==
    /\ config = Config(NoneVal, NoneVal)
    /\ vms = <<>>
    /\ tfvars \in TfvarsFiles
    /\ variables_tf = NoFile
    /\ inventory_yml = NoInventory
    /\ InitLocals

SpecTfvars == InitTfvars /\ [][Next]_vars

\* every variables.tf, beside a terraform.tfvars that exists or not
InitDecl ==
    /\ config \in {Config(NoneVal, NoneVal), Config("S3cret!", "onboard.cmd")}
    /\ vms = <<>>
    /\ tfvars \in {NoFile, File("location = \"eastus\"\n")}
    /\ variables_tf \in VariablesTfFiles
    /\ inventory_yml = NoInventory
    /\ InitLocals

SpecDecl == InitDecl /\ [][Next]_vars

\* every resource group of at most MaxVMs machines under a configuration with
\* a password; without one, the example, over an inventory that exists or not
InitInventory ==
    /\ \/ /\ config = Config("S3cret!", "onboard.cmd")
          /\ vms \in VMLists
          /\ inventory_yml = NoInventory
       \/ /\ config \in { Config(p, "onboard.cmd") : p \in Passwords }
          /\ vms = ExampleVMs
          /\ inventory_yml \in {NoInventory, StaleInventory}
    /\ tfvars = NoFile
    /\ variables_tf = NoFile
    /\ InitLocals

SpecInventory == InitInventory /\ [][Next]_vars

----------------------------------------------------------------------------
(* What the properties read from a state *)

\* the last step called c
Called(c) == \E i \in DOMAIN trace : trace[i].cmd = c

\* the last step called c and it ended o
Ended(c, o) == \E i \in DOMAIN trace : trace[i] = Step(c, o)

StartsWith(s, k) == Len(s) >= Len(k) /\ SubSeq(s, 1, Len(k)) = k

\* how many terraform commands the last step ran
TerraformCalls == Cardinality({ i \in DOMAIN trace : StartsWith(trace[i].cmd, "terraform ") })

\* the last step ran nothing of inventory generation or onboarding
NoInventoryNoOnboarding ==
    /\ ~Called("create_ansible_inventory")
    /\ ~Called("virtual_machines.list")
    /\ ~Called("network_interfaces.get")
    /\ ~Called("public_ip_addresses.get")
    /\ ~Called("write playbooks/inventory.yml")
    /\ ~Called("run_defender_onboarding")
    /\ ~Called("ansible-playbook")

\* the last step called no cloud API
NoCloudCall ==
    /\ ~Called("virtual_machines.list")
    /\ ~Called("network_interfaces.get")
    /\ ~Called("public_ip_addresses.get")

\* a line that assigns the variable allowed_ip
IsAllowedIpAssignment(l) == StartsWith(l, "allowed_ip =") \/ StartsWith(l, "allowed_ip=")

\* the last step ran update_ip_config, its lookup succeeded and terraform.tfvars exists
Synced == current_ip # Unset /\ tfvars.exists

\* the group the specification gives a VM name
ExpectedGroup(name) ==
    LET n == Lower(name)
    IN IF Contains(n, "dc") \/ Contains(n, "workstation") \/ Contains(n, "win11")
          \/ Contains(n, "server2025")
       THEN "windows"
       ELSE IF Contains(n, "kali") THEN "linux" ELSE "none"

\* the names of the machines with a public IP that the specification puts in group g
ExpectedHosts(g) ==
    { vms[i].name : i \in { j \in DOMAIN vms : vms[j].status = "ok"
                                               /\ ExpectedGroup(vms[j].name) = g } }

\* the inventory file holds exactly the machines that resolve, each in its group
\* under its public IP
InventoryAsSpecified ==
    /\ inventory_yml.exists
    /\ DOMAIN inventory_yml.windows = ExpectedHosts("windows")
    /\ DOMAIN inventory_yml.linux = ExpectedHosts("linux")
    /\ \A i \in DOMAIN vms :
          vms[i].status = "ok" =>
             /\ ExpectedGroup(vms[i].name) = "windows"
                   => inventory_yml.windows[vms[i].name].ansible_host = vms[i].ip
             /\ ExpectedGroup(vms[i].name) = "linux"
                   => inventory_yml.linux[vms[i].name].ansible_host = vms[i].ip

----------------------------------------------------------------------------
(* The properties *)

\* C1: after a run of update_ip_config whose lookup succeeded on a values file
\* that held an allowed_ip assignment, the file holds exactly one allowed_ip
\* assignment, it is allowed_ip = "<new ip>/32", and every other line of the
\* prior content is there unchanged and in order -- for every prior content.
C1_ExactlyOneAssignmentRestUnchanged ==
    (Synced /\ \E i \in DOMAIN lines : IsAllowedIpAssignment(lines[i])) =>
        LET now == ReadLines(tfvars.text)
            Other(l) == ~IsAllowedIpAssignment(l)
        IN /\ Cardinality({ i \in DOMAIN now : IsAllowedIpAssignment(now[i]) }) = 1
           /\ \A i \in DOMAIN now :
                 IsAllowedIpAssignment(now[i]) => now[i] = AllowedIpLine(current_ip)
           /\ SelectSeq(now, Other) = SelectSeq(lines, Other)

\* C2: after a run of update_ip_config whose lookup succeeded on a values file
\* none of whose lines contains allowed_ip, the prior content is a prefix of the
\* file, the file's last line is allowed_ip = "<ip>/32", and no other line
\* contains allowed_ip.
C2_AppendsOneLineWhenAbsent ==
    (Synced /\ ~\E i \in DOMAIN lines : Contains(lines[i], "allowed_ip")) =>
        LET now == ReadLines(tfvars.text)
            prior == Join(lines)
        IN /\ StartsWith(tfvars.text, prior)
           /\ Len(tfvars.text) > Len(prior)
           /\ now # <<>>
           /\ now[Len(now)] = AllowedIpLine(current_ip)
           /\ Cardinality({ i \in DOMAIN now : Contains(now[i], "allowed_ip") }) = 1

\* a values file of at least one line, none mentioning allowed_ip and the last
\* one unterminated, has been extended
C2_Witness ==
    /\ Synced
    /\ lines # <<>>
    /\ ~\E i \in DOMAIN lines : Contains(lines[i], "allowed_ip")
    /\ ~Contains(lines[Len(lines)], "\n")
    /\ tfvars.text = Join(lines) \o "\n" \o AllowedIpLine(current_ip)

\* the declaration of the variable, as it starts
DeclHead == "variable \"allowed_ip\""

\* a step that ran update_ip_config
RanSync(o) == o \in {"build", "update", "update_ip_config"}

\* C3 as stated: a declarations file that mentions allowed_ip is never changed,
\* and one that does not is extended by the block by every run of
\* update_ip_config; the file never holds the declaration twice.
C3_DeclarationAppendedIffMissing ==
    /\ [](variables_tf.exists => Occurrences(variables_tf.text, DeclHead) <= 1)
    /\ [][/\ Contains(variables_tf.text, "allowed_ip") => variables_tf' = variables_tf
          /\ (RanSync(op') /\ variables_tf.exists
              /\ ~Contains(variables_tf.text, "allowed_ip"))
                => variables_tf' = File(variables_tf.text \o DeclBlock)]_vars

\* C3 as amended: a declarations file that mentions allowed_ip is never
\* changed; no step changes the file other than by appending the block; a run of
\* update_ip_config whose lookup succeeded appends the block to a file that
\* does not mention allowed_ip; the file never holds the declaration twice.
C3_DeclarationAppendedWhenLookupSucceeds ==
    /\ [](variables_tf.exists => Occurrences(variables_tf.text, DeclHead) <= 1)
    /\ [][/\ Contains(variables_tf.text, "allowed_ip") => variables_tf' = variables_tf
          /\ variables_tf' # variables_tf
                => /\ ~Contains(variables_tf.text, "allowed_ip")
                   /\ variables_tf' = File(variables_tf.text \o DeclBlock)
          /\ (RanSync(op') /\ current_ip' # Unset /\ variables_tf.exists
              /\ ~Contains(variables_tf.text, "allowed_ip"))
                => variables_tf' = File(variables_tf.text \o DeclBlock)]_vars

\* a run of update_ip_config has appended the block to a non-empty file
C3_Witness ==
    /\ current_ip # Unset
    /\ variables_tf.exists
    /\ content # ""
    /\ ~Contains(content, "allowed_ip")
    /\ variables_tf.text = content \o DeclBlock
    /\ Ended("append variables.tf", "ok")

\* C4: when the inventory is written, every machine with a public IP is a host
\* of the group its lower-cased name gives (windows before linux) and of no
\* other, no name is a host of both groups, and the example of four gives
\* windows = {DC01, workstation-1}, linux = {kali-attacker}.
C4_ClassifiedByName ==
    Ended("write playbooks/inventory.yml", "ok") =>
        /\ InventoryAsSpecified
        /\ DOMAIN inventory_yml.windows \cap DOMAIN inventory_yml.linux = {}
        /\ vms = ExampleVMs =>
              /\ DOMAIN inventory_yml.windows = {"DC01", "workstation-1"}
              /\ DOMAIN inventory_yml.linux = {"kali-attacker"}

\* the example of four has been written
C4_Witness ==
    /\ vms = ExampleVMs
    /\ Ended("write playbooks/inventory.yml", "ok")
    /\ "workstation-1" \in DOMAIN inventory_yml.windows
    /\ "kali-attacker" \in DOMAIN inventory_yml.linux
    /\ inventory_yml.windows["DC01"].ansible_host = "20.0.0.1"

\* C5: whenever create_ansible_inventory has listed the machines, it returns
\* success and has written the inventory, which holds every machine that
\* resolves and none that does not -- whatever the other machines did.
C5_FailedVMDoesNotStopEnumeration ==
    (op = "create_ansible_inventory" /\ Ended("virtual_machines.list", "ok")) =>
        /\ result = "success"
        /\ Ended("write playbooks/inventory.yml", "ok")
        /\ InventoryAsSpecified

\* C6: a call of create_ansible_inventory under a configuration whose
\* admin_password is absent or empty returns failure, calls no cloud API and
\* leaves playbooks/inventory.yml as it was, there or not.
C6_NoPasswordNoCall ==
    [][(op' = "create_ansible_inventory"
        /\ (config["admin_password"] = NoneVal \/ config["admin_password"] = ""))
          => /\ result' = "failure"
             /\ inventory_yml' = inventory_yml
             /\ trace' = <<Step("create_ansible_inventory", "call")>>]_vars

\* called with an empty password over an existing inventory
C6_Witness ==
    /\ op = "create_ansible_inventory"
    /\ config["admin_password"] = ""
    /\ result = "failure"
    /\ inventory_yml = StaleInventory

\* C7: in build, after an init that did not end well nothing else runs, after
\* an apply that did not end well neither inventory generation nor onboarding
\* runs, and build returns failure.
C7_BuildStopsAtFailedStep ==
    op = "build" =>
        /\ (Called("terraform init") /\ ~Ended("terraform init", "ok"))
              => /\ result = "failure"
                 /\ ~Called("terraform apply -auto-approve")
                 /\ NoInventoryNoOnboarding
        /\ (Called("terraform apply -auto-approve")
            /\ ~Ended("terraform apply -auto-approve", "ok"))
              => /\ result = "failure"
                 /\ NoInventoryNoOnboarding
        /\ TerraformCalls <= 2

\* build has stopped at an apply that exited non-zero
C7_Witness ==
    /\ op = "build"
    /\ Ended("terraform init", "ok")
    /\ Ended("terraform apply -auto-approve", "nonzero")
    /\ result = "failure"

\* C8: build, update, destroy and create_ansible_inventory end by returning a
\* boolean, whatever their external calls did.
C8_NoExceptionEscapes ==
    op \in {"build", "update", "destroy", "create_ansible_inventory"}
        => result \in {"success", "failure"}

\* C9: a build whose init and apply succeeded returns success, and it runs the
\* playbook only after the inventory was written and with the script
\* configured, the script present and ansible-playbook on the PATH.
C9_BuildSucceedsAfterApply ==
    (op = "build" /\ Ended("terraform init", "ok")
     /\ Ended("terraform apply -auto-approve", "ok")) =>
        /\ result = "success"
        /\ Called("ansible-playbook") =>
              /\ Ended("write playbooks/inventory.yml", "ok")
              /\ config["defender_onboarding_script"] # NoneVal
              /\ Ended("os.path.exists", "yes")
              /\ Ended("shutil.which", "yes")

\* C10: update runs terraform apply once and destroy runs terraform destroy
\* once, each as the last thing it does; they return failure exactly when that
\* command did not end well; neither runs inventory generation or onboarding
\* or changes playbooks/inventory.yml; destroy does nothing else at all and
\* leaves the two terraform files as they were.
C10_UpdateDestroyOneCommand ==
    /\ [](op = "update" =>
            /\ TerraformCalls = 1
            /\ trace[Len(trace)].cmd = "terraform apply -auto-approve"
            /\ result \in {"success", "failure"}
            /\ result = "failure" <=> trace[Len(trace)].out # "ok"
            /\ NoInventoryNoOnboarding)
    /\ [](op = "destroy" =>
            /\ Len(trace) = 1
            /\ trace[1].cmd = "terraform destroy -auto-approve"
            /\ result \in {"success", "failure"}
            /\ result = "failure" <=> trace[1].out # "ok")
    /\ [][/\ op' \in {"update", "destroy"} => inventory_yml' = inventory_yml
          /\ op' = "destroy" => tfvars' = tfvars /\ variables_tf' = variables_tf]_vars

\* a destroy has failed beside a values file that exists
C10_Witness ==
    /\ op = "destroy"
    /\ tfvars.exists
    /\ trace = <<Step("terraform destroy -auto-approve", "nonzero")>>
    /\ result = "failure"

====
